---- MODULE Spec2Model ----
(***************************************************************************)
(* Model of the miniSEED event extractor:                                  *)
(*   scripts/gui/mseed_event_extractor.py  (the refactored GUI)            *)
(*   scripts/gui/test_gui.py               (the script it refactors)       *)
(*   scripts/utils/visualizar_evento.py    (the command-line viewer)       *)
(*                                                                         *)
(* Texts (entry fields, labels, arguments) are sequences of one-character  *)
(* strings.  Instants are integers counting ticks of half a millisecond    *)
(* since midnight of day 0, so that the truncation to whole milliseconds   *)
(* done by the formatting code is visible.                                 *)
(***************************************************************************)
EXTENDS Integers, Sequences, FiniteSets, TLC

\* ------------------------------------------------------------------------
\* Units of the time representation
\* ------------------------------------------------------------------------
UsPerTick == 500
TicksPerMs == 2
TicksPerSec == 2000
TicksPerDay == 172800000

\* ------------------------------------------------------------------------
\* Text helpers: int(), str.split(','), {:02d}, {:03d}
\* ------------------------------------------------------------------------
Digits == <<"0", "1", "2", "3", "4", "5", "6", "7", "8", "9">>

IsDigit(c) == \E i \in 1..10 : Digits[i] = c

DigitVal(c) == (CHOOSE i \in 1..10 : Digits[i] = c) - 1

AllDigits(s) == \A i \in 1..Len(s) : IsDigit(s[i])

RECURSIVE NatOf(_)
NatOf(s) ==
    IF s = <<>> THEN 0
    ELSE 10 * NatOf(SubSeq(s, 1, Len(s) - 1)) + DigitVal(s[Len(s)])

RECURSIVE NatText(_)
NatText(n) ==
    IF n < 10 THEN <<Digits[n + 1]>>
    ELSE NatText(n \div 10) \o <<Digits[(n % 10) + 1]>>

RECURSIVE ZeroPad(_, _)
ZeroPad(s, width) ==
    IF Len(s) >= width THEN s ELSE ZeroPad(<<"0">> \o s, width)

\* format(n, "0<width>d") for n >= 0
FormatD(n, width) == ZeroPad(NatText(n), width)

\* int(text) succeeds on an optional sign followed by at least one digit;
\* on anything else it raises ValueError.
IsIntText(text) ==
    LET signed == Len(text) > 0 /\ text[1] \in {"-", "+"}
        body   == IF signed THEN Tail(text) ELSE text
    IN  body # <<>> /\ AllDigits(body)

IntOf(text) ==
    IF text[1] = "-" THEN 0 - NatOf(Tail(text))
    ELSE IF text[1] = "+" THEN NatOf(Tail(text))
    ELSE NatOf(text)

CommaPositions(s) == {i \in 1..Len(s) : s[i] = ","}

\* ------------------------------------------------------------------------
\* datetime.strptime(text, '%H:%M:%S').time()
\* The format compiles to the regular expression
\*   (2[0-3]|[0-1]\d|\d):([0-5]\d|\d):(6[0-1]|[0-5]\d|\d)
\* matched at the start of the text; text left over after the match, or a
\* second of 60 or 61, raises ValueError.
\* ------------------------------------------------------------------------
CharAt(s, i) == IF i \in 1..Len(s) THEN s[i] ELSE "eos"

FieldLen(s, pos, kind) ==
    LET a == CharAt(s, pos)
        b == CharAt(s, pos + 1)
        two ==
            CASE kind = "H" -> \/ (a = "2" /\ b \in {"0", "1", "2", "3"})
                               \/ (a \in {"0", "1"} /\ IsDigit(b))
              [] kind = "M" -> a \in {"0", "1", "2", "3", "4", "5"} /\ IsDigit(b)
              [] kind = "S" -> \/ (a = "6" /\ b \in {"0", "1"})
                               \/ (a \in {"0", "1", "2", "3", "4", "5"} /\ IsDigit(b))
    IN  IF two THEN 2 ELSE IF IsDigit(a) THEN 1 ELSE 0

\* A raised exception is a record with an "error" field; a time of day is a
\* record of its four fields.
ValueError == [error |-> "ValueError"]

IsError(v) == "error" \in DOMAIN v

dt_time(hour, minute, second, microsecond) ==
    IF /\ hour \in 0..23 /\ minute \in 0..59 /\ second \in 0..59
       /\ microsecond \in 0..999999
    THEN [hour |-> hour, minute |-> minute, second |-> second,
          microsecond |-> microsecond]
    ELSE ValueError

strptime_HMS(s) ==
    LET hl == FieldLen(s, 1, "H")
        mp == 1 + hl + 1
        ml == FieldLen(s, mp, "M")
        sp == mp + ml + 1
        sl == FieldLen(s, sp, "S")
    IN  IF /\ hl > 0 /\ CharAt(s, 1 + hl) = ":"
           /\ ml > 0 /\ CharAt(s, mp + ml) = ":"
           /\ sl > 0 /\ sp + sl - 1 = Len(s)
        THEN dt_time(NatOf(SubSeq(s, 1, hl)),
                     NatOf(SubSeq(s, mp, mp + ml - 1)),
                     NatOf(SubSeq(s, sp, sp + sl - 1)), 0)
        ELSE ValueError

\* ------------------------------------------------------------------------
\* class TimeHandler
\* ------------------------------------------------------------------------
\* raise ValueError(f"Formato de hora inválido: {time_str}")
InvalidTime(time_str) ==
    [error |-> "ValueError", prefix |-> "Formato de hora inválido: ",
     arg |-> time_str]

\* The digits after the comma read as a decimal fraction of the second
MsToMicroFraction(ms) ==
    LET body == IF ms[1] \in {"-", "+"} THEN Tail(ms) ELSE ms
    IN  NatOf(SubSeq(body \o <<"0", "0", "0">>, 1, 3)) * 1000

\* int(ms) * 1000, for a text int() accepts
MsToMicro(ms) == IntOf(ms) * 1000

parse_time_with_ms(time_str) ==
    LET commas == CommaPositions(time_str)
    IN  IF commas # {}
        THEN IF Cardinality(commas) # 1 THEN InvalidTime(time_str)
             ELSE LET c    == CHOOSE i \in commas : TRUE
                      main == SubSeq(time_str, 1, c - 1)
                      ms   == SubSeq(time_str, c + 1, Len(time_str))
                      t    == strptime_HMS(main)
                  IN  IF IsError(t) \/ ~IsIntText(ms)
                      THEN InvalidTime(time_str)
                      ELSE LET r == dt_time(t.hour, t.minute, t.second,
                                            MsToMicro(ms))
                           IN  IF IsError(r) THEN InvalidTime(time_str)
                               ELSE r
        ELSE LET t == strptime_HMS(time_str)
             IN  IF IsError(t) THEN InvalidTime(time_str) ELSE t

\* The fields of a datetime given as an instant
TimeOfDay(dt) ==
    LET tod == dt % TicksPerDay
        sec == tod \div TicksPerSec
    IN  [hour |-> sec \div 3600, minute |-> (sec \div 60) % 60,
         second |-> sec % 60,
         microsecond |-> (tod % TicksPerSec) * UsPerTick]

DateOf(dt) == dt \div TicksPerDay

\* dt.strftime('%H:%M:%S')
strftime_HMS(dt) ==
    LET t == TimeOfDay(dt)
    IN  FormatD(t.hour, 2) \o <<":">> \o FormatD(t.minute, 2) \o <<":">>
          \o FormatD(t.second, 2)

\* int(dt.microsecond/1000)
MillisOf(dt) == TimeOfDay(dt).microsecond \div 1000

MsWidth == 2

format_time_with_ms(dt) ==
    strftime_HMS(dt) \o <<",">> \o FormatD(MillisOf(dt), MsWidth)

\* datetime.combine(base_date, time_obj)
Combine(base_date, t) ==
    base_date * TicksPerDay
      + ((t.hour * 60 + t.minute) * 60 + t.second) * TicksPerSec
      + t.microsecond \div UsPerTick

\* timedelta(seconds=shift_seconds) added to datetime.combine(...); the
\* UTCDateTime and the datetime returned are the same instant
create_utc_datetime(base_date, time_obj, shift_seconds) ==
    Combine(base_date, time_obj) + shift_seconds

\* ------------------------------------------------------------------------
\* float(text) and f"{value:.2f}" on values counted in ticks
\* ------------------------------------------------------------------------
None == [none |-> TRUE]

DotPositions(s) == {i \in 1..Len(s) : s[i] = "."}

Unsigned(text) ==
    IF Len(text) > 0 /\ text[1] \in {"-", "+"} THEN Tail(text) ELSE text

\* float(text) succeeds on [sign] digits [. digits] with at least one digit
\* (the decimal notation the fields are written in); otherwise ValueError.
IsFloatText(text) ==
    LET body == Unsigned(text)
        dots == DotPositions(body)
    IN  /\ Cardinality(dots) <= 1
        /\ \A i \in 1..Len(body) : IsDigit(body[i]) \/ body[i] = "."
        /\ Len(body) > Cardinality(dots)

\* The value of float(text) in ticks, rounded to the nearest tick
FloatTicks(text) ==
    LET body == Unsigned(text)
        dots == DotPositions(body)
        d    == IF dots = {} THEN Len(body) + 1 ELSE CHOOSE i \in dots : TRUE
        ip   == SubSeq(body, 1, d - 1)
        fp   == SubSeq(SubSeq(body, d + 1, Len(body))
                         \o <<"0", "0", "0", "0">>, 1, 4)
        mag  == NatOf(ip) * TicksPerSec + (NatOf(fp) * TicksPerSec + 5000) \div 10000
    IN  IF Len(text) > 0 /\ text[1] = "-" THEN 0 - mag ELSE mag

RECURSIVE Pow10(_)
Pow10(n) == IF n = 0 THEN 1 ELSE 10 * Pow10(n - 1)

\* The roundings of |value| to `decimals` places that the binary value of the
\* float can produce: the nearest one, and either neighbour on a decimal tie
RoundedMagnitudes(value, decimals) ==
    LET unit == TicksPerSec \div Pow10(decimals)
        mag  == IF value < 0 THEN 0 - value ELSE value
        q    == mag \div unit
        r    == mag % unit
    IN  IF 2 * r < unit THEN {q}
        ELSE IF 2 * r > unit THEN {q + 1}
        ELSE {q, q + 1}

\* The text of f"{value:.<decimals>f}" for the rounded magnitude q; `plus`
\* is the "+" flag of the format
FixedText(value, q, decimals, plus) ==
    (IF value < 0 THEN <<"-">> ELSE IF plus THEN <<"+">> ELSE <<>>)
      \o NatText(q \div Pow10(decimals)) \o <<".">>
      \o FormatD(q % Pow10(decimals), decimals)

FormatFixed(value, decimals, plus) ==
    {FixedText(value, q, decimals, plus) :
        q \in RoundedMagnitudes(value, decimals)}

\* ------------------------------------------------------------------------
\* The miniSEED files the file dialog can return.  A stream is the record
\* of what read() and resample() gave: the time span of its first trace and
\* its channels.
\* ------------------------------------------------------------------------
FileA ==
    [name |-> "a.mseed", readable |-> TRUE,
     starttime |-> Combine(1, dt_time(12, 0, 0, 0)),
     endtime |-> Combine(1, dt_time(12, 0, 4, 0)),
     channels |-> {"ENT", "ENR", "ENV"}]

FileB ==
    [name |-> "b.mseed", readable |-> TRUE,
     starttime |-> Combine(2, dt_time(23, 59, 58, 250000)),
     endtime |-> Combine(3, dt_time(0, 0, 2, 0)),
     channels |-> {"ENT", "ENV"}]

FileBad ==
    [name |-> "bad.mseed", readable |-> FALSE,
     starttime |-> 0, endtime |-> 0, channels |-> {}]

Files == {FileA, FileB, FileBad}

Channels == {"ENT", "ENR", "ENV"}

\* The channels the user picks in the model: one every file has, one FileB lacks
PickedChannels == {"ENT", "ENR"}

\* stream.slice(starttime, endtime).select(channel) is non-empty: the window
\* meets the span of the data and the stream has the channel
SegmentNonEmpty(stream, start_time, end_time, channel) ==
    /\ channel \in stream.channels
    /\ start_time <= end_time
    /\ start_time <= stream.endtime
    /\ end_time >= stream.starttime

\* ------------------------------------------------------------------------
\* Widgets.  A window is a record of its widgets' contents and its data.
\* Four fields say what the last user event did: `handler` names it,
\* `dialog` is the message box it showed, `slice_call` the slicing call it
\* made and `centered_at` the click position it computed a shift from (None:
\* it showed, made or computed none).
\* ------------------------------------------------------------------------
Dashes == <<"-", "-">>

Label(prefix, value, suffix) ==
    [prefix |-> prefix, value |-> value, suffix |-> suffix]

Dialog(fn, title, message) ==
    [fn |-> fn, title |-> title, message |-> message]

\* The window after construction (both scripts build the same widgets)
InitialWindow ==
    [entry_archivo |-> "",
     lbl_fecha     |-> [text |-> "Fecha: --   Inicio: --   Fin: --"],
     entry_hora    |-> <<>>,
     spin_duracion |-> <<"0", ".", "1">>,
     entry_shift   |-> <<"0">>,
     channel_var   |-> "ENT",
     btn_centrar   |-> "Centrar: OFF",
     lbl_centro    |-> Label("Centro: ", Dashes, ""),
     lbl_pos       |-> Label("Posición: ", Dashes, ""),
     is_active     |-> FALSE,
     stream        |-> None,
     file_starttime |-> None,
     file_endtime  |-> None,
     plot          |-> None,
     handler       |-> "init",
     dialog        |-> None,
     slice_call    |-> None,
     centered_at   |-> None]

\* A handler starts with no message box shown and no slicing call made
Enter(g, handler) ==
    [g EXCEPT !.handler = handler, !.dialog = None, !.slice_call = None,
              !.centered_at = None]

\* ------------------------------------------------------------------------
\* class CenteringMode
\* ------------------------------------------------------------------------
\* Only the button follows the flag
_update_ui_button_only(g) ==
    [g EXCEPT !.btn_centrar = IF g.is_active THEN "Centrar: ON"
                              ELSE "Centrar: OFF"]

\* CenteringMode._update_ui
_update_ui(g) ==
    IF g.is_active
    THEN [g EXCEPT !.btn_centrar = "Centrar: ON",
                   !.lbl_pos = Label("Δ: ", Dashes, "")]
    ELSE [g EXCEPT !.btn_centrar = "Centrar: OFF",
                   !.lbl_pos = Label("Posición: ", Dashes, "")]

toggle(g) == _update_ui([g EXCEPT !.is_active = ~g.is_active])

deactivate(g) == _update_ui([g EXCEPT !.is_active = FALSE])

\* ------------------------------------------------------------------------
\* class EventExtractorGUI (mseed_event_extractor.py)
\* ------------------------------------------------------------------------
\* DataProcessor.load_file followed by _update_file_info, _reset_parameters
\* and the file-path entry; a failed load shows the error and returns
\* The load forgets the stream it had before it raises
LoadFailedDropsStream(g) ==
    [g EXCEPT !.stream = None,
              !.dialog =
                 Dialog("showerror", "Error", "Error al cargar archivo: ...")]

\* load_file raises before it assigns anything; _open_file shows the error
LoadFailed(g) ==
    [g EXCEPT !.dialog =
         Dialog("showerror", "Error", "Error al cargar archivo: ...")]

\* stats.starttime and stats.endtime are UTCDateTime objects
UTCDateTime(t) == [timestamp |-> t]

\* The load takes the new file's times and keeps a stream it already has
load_file_keeps_stream(g, f) ==
    [g EXCEPT !.stream = IF g.stream = None
                         THEN [name |-> f.name, starttime |-> f.starttime,
                               endtime |-> f.endtime, channels |-> f.channels]
                         ELSE g.stream,
              !.file_starttime = UTCDateTime(f.starttime),
              !.file_endtime = UTCDateTime(f.endtime)]

\* DataProcessor.load_file for a file read() and resample() accept
load_file(g, f) ==
    [g EXCEPT !.stream = [name |-> f.name, starttime |-> f.starttime,
                          endtime |-> f.endtime, channels |-> f.channels],
              !.file_starttime = UTCDateTime(f.starttime),
              !.file_endtime = UTCDateTime(f.endtime)]

_open_file(g0, f) ==
    LET g == Enter(g0, "abrir")
    IN  IF ~f.readable
        THEN LoadFailed(g)
        ELSE [load_file(g, f) EXCEPT
                 !.lbl_fecha = [date |-> DateOf(f.starttime),
                                inicio |-> strftime_HMS(f.starttime),
                                fin |-> strftime_HMS(f.endtime)],
                 !.entry_hora = strftime_HMS(f.starttime),
                 !.entry_shift = <<"0">>,
                 !.entry_archivo = f.name]

\* filedialog.askopenfilename returned "" (the dialog was cancelled)
_open_file_cancel(g0) == Enter(g0, "abrir")

_update_time_display(g, start_dt) ==
    [g EXCEPT !.entry_hora = format_time_with_ms(start_dt),
              !.entry_shift = <<"0">>]

_update_center_display(g, start_utc, duration) ==
    [g EXCEPT !.lbl_centro =
        Label("Centro: ", format_time_with_ms(start_utc + duration \div 2), "")]

\* PlotManager.create_plot: the plot shows the segment from its start over
\* the duration, titled with the file name
create_plot(g, start_utc, duration) ==
    [g EXCEPT !.plot = [start |-> start_utc, duration |-> duration,
                        channel |-> g.channel_var,
                        title |-> g.entry_archivo]]

ShowError(g, message) ==
    [g EXCEPT !.dialog = Dialog("showerror", "Error", message)]

\* The time display refreshed before the error is shown
NoDataAfterUpdate(g) ==
    ShowError(_update_time_display(g, g.slice_call.starttime),
              "No hay datos en el intervalo especificado")

\* extract_segment raises before any widget is touched; _preview shows it
NoDataError(g) == ShowError(g, "No hay datos en el intervalo especificado")

_preview(g0) ==
    LET g == Enter(g0, "previsualizar")
    IN  IF g.stream = None
        THEN [g EXCEPT !.dialog = Dialog("showwarning", "Aviso",
                                         "Primero abre un archivo mseed.")]
        ELSE
        LET hora_dt == parse_time_with_ms(g.entry_hora)
        IN  IF IsError(hora_dt)
            THEN ShowError(g, "Formato de hora inicio inválido")
            ELSE IF ~IsFloatText(g.spin_duracion) \/ ~IsFloatText(g.entry_shift)
            THEN ShowError(g, "Duración o desplazamiento no válidos")
            ELSE
            LET duration  == FloatTicks(g.spin_duracion)
                shift     == FloatTicks(g.entry_shift)
                start_utc == create_utc_datetime(
                                 DateOf(g.file_starttime.timestamp),
                                 hora_dt, shift)
                end_time  == start_utc + duration
                called    == [g EXCEPT !.slice_call =
                                 [stream |-> g.stream.name,
                                  starttime |-> start_utc,
                                  endtime |-> end_time,
                                  channel |-> g.channel_var]]
            IN  IF ~SegmentNonEmpty(g.stream, start_utc, end_time,
                                    g.channel_var)
                THEN NoDataError(called)
                ELSE create_plot(
                       deactivate(
                         _update_center_display(
                           _update_time_display(called, start_utc),
                           start_utc, duration)),
                       start_utc, duration)

_toggle_centering(g0) == toggle(Enter(g0, "centrar"))

\* A mouse event on the canvas: inaxes and xdata (None outside the axes)
InAxes(x) == [inaxes |-> TRUE, xdata |-> x]

OutOfAxes == [inaxes |-> FALSE, xdata |-> 0]

ClickDecimals == 2

\* The windows _on_plot_click can leave (two on a rounding tie)
_on_plot_click(g0, event) ==
    LET g == Enter(g0, "click")
    IN  IF ~g.is_active \/ ~event.inaxes THEN {g}
        ELSE IF ~IsFloatText(g.spin_duracion) THEN {g}
        ELSE LET x_click  == event.xdata
                 duration == FloatTicks(g.spin_duracion)
                 center   == duration \div 2
                 delta    == x_click - center
             IN  {toggle([g EXCEPT !.entry_shift = text,
                                   !.centered_at = [x |-> x_click]]) :
                     text \in FormatFixed(delta, ClickDecimals, FALSE)}

_on_mouse_move(g0, event) ==
    LET g == Enter(g0, "move")
    IN  IF ~event.inaxes
        THEN IF g.is_active
             THEN {[g EXCEPT !.lbl_pos = Label("Δ: ", Dashes, "")]}
             ELSE {[g EXCEPT !.lbl_pos = Label("Posición: ", Dashes, "")]}
        ELSE IF g.is_active
        THEN IF ~IsFloatText(g.spin_duracion) THEN {g}
             ELSE LET duration == FloatTicks(g.spin_duracion)
                      center   == duration \div 2
                      delta    == event.xdata - center
                  IN  {[g EXCEPT !.lbl_pos = Label("Δ: ", text, " s")] :
                          text \in FormatFixed(delta, ClickDecimals, TRUE)}
        ELSE {[g EXCEPT !.lbl_pos = Label("Posición: ", text, " s")] :
                 text \in FormatFixed(event.xdata, ClickDecimals, FALSE)}

\* ------------------------------------------------------------------------
\* test_gui.py, the script the class above refactors.  Its globals
\* resampled_stream and centrar_mode are the fields stream and is_active of
\* the window record; it keeps no file_endtime.
\* ------------------------------------------------------------------------
toggle_centrar(g0) ==
    LET g == [g0 EXCEPT !.is_active = ~g0.is_active]
    IN  IF g.is_active
        THEN [g EXCEPT !.btn_centrar = "Centrar: ON",
                       !.lbl_pos = Label("Δ: ", Dashes, "")]
        ELSE [g EXCEPT !.btn_centrar = "Centrar: OFF",
                       !.lbl_pos = Label("Posición: ", Dashes, "")]

OldClickDecimals == 3

on_click(g0, event) ==
    LET g == Enter(g0, "click")
    IN  IF ~g.is_active \/ ~event.inaxes THEN {g}
        ELSE IF ~IsFloatText(g.spin_duracion) THEN {g}
        ELSE LET x_click == event.xdata
                 dur     == FloatTicks(g.spin_duracion)
                 center  == dur \div 2
                 delta   == x_click - center
             IN  {toggle_centrar([g EXCEPT !.entry_shift = text,
                                           !.centered_at = [x |-> x_click]]) :
                     text \in FormatFixed(delta, OldClickDecimals, FALSE)}

on_mouse_move(g0, event) ==
    LET g == Enter(g0, "move")
    IN  IF g.is_active /\ event.inaxes
        THEN IF ~IsFloatText(g.spin_duracion) THEN {g}
             ELSE LET dur    == FloatTicks(g.spin_duracion)
                      center == dur \div 2
                      delta  == event.xdata - center
                  IN  {[g EXCEPT !.lbl_pos = Label("Δ: ", text, " s")] :
                          text \in FormatFixed(delta, OldClickDecimals, TRUE)}
        ELSE IF event.inaxes
        THEN {[g EXCEPT !.lbl_pos = Label("Posición: ", text, " s")] :
                 text \in FormatFixed(event.xdata, OldClickDecimals, FALSE)}
        ELSE {[g EXCEPT !.lbl_pos = Label("Posición: ", Dashes, "")]}

abrir_archivo(g0, f) ==
    LET g == [Enter(g0, "abrir") EXCEPT !.entry_archivo = f.name]
    IN  IF ~f.readable
        THEN [g EXCEPT !.dialog = Dialog("showerror", "Error apertura", "..."),
                       !.stream = None]
        ELSE [g EXCEPT
                 !.stream = [name |-> f.name, starttime |-> f.starttime,
                             endtime |-> f.endtime, channels |-> f.channels],
                 !.file_starttime = UTCDateTime(f.starttime),
                 !.lbl_fecha = [date |-> DateOf(f.starttime),
                                inicio |-> strftime_HMS(f.starttime),
                                fin |-> strftime_HMS(f.endtime)],
                 !.entry_hora = strftime_HMS(f.starttime),
                 !.entry_shift = <<"0">>]

abrir_archivo_cancel(g0) == Enter(g0, "abrir")

\* entry_hora.get().split(',')[0]
BeforeComma(s) ==
    LET commas == CommaPositions(s)
    IN  IF commas = {} THEN s
        ELSE SubSeq(s, 1, (CHOOSE i \in commas : \A j \in commas : i <= j) - 1)

\* strftime('%H:%M:%S') + f",{int(microsecond/1000):03d}"
OldTimeText(dt) == strftime_HMS(dt) \o <<",">> \o FormatD(MillisOf(dt), 3)

previsualizar(g0) ==
    LET g == Enter(g0, "previsualizar")
    IN  IF g.stream = None
        THEN [g EXCEPT !.dialog = Dialog("showwarning", "Aviso",
                                         "Primero abre un archivo mseed.")]
        ELSE
        LET hora_dt == strptime_HMS(BeforeComma(g.entry_hora))
        IN  IF IsError(hora_dt)
            THEN [g EXCEPT !.dialog = Dialog("showerror", "Error",
                                   "Formato de hora inicio inválido.")]
            ELSE IF ~IsFloatText(g.spin_duracion) \/ ~IsFloatText(g.entry_shift)
            THEN [g EXCEPT !.dialog = Dialog("showerror", "Error",
                                   "Duración o desplazamiento no válidos.")]
            ELSE
            LET dur     == FloatTicks(g.spin_duracion)
                base_dt == Combine(DateOf(g.file_starttime.timestamp), hora_dt)
                             + FloatTicks(g.entry_shift)
                t0      == base_dt
                t1      == t0 + dur
                called  == [g EXCEPT !.slice_call =
                               [stream |-> g.stream.name, starttime |-> t0,
                                endtime |-> t1, channel |-> g.channel_var]]
            IN  IF ~SegmentNonEmpty(g.stream, t0, t1, g.channel_var)
                THEN [called EXCEPT !.dialog =
                         Dialog("showwarning", "Sin datos",
                                "No hay datos en el intervalo especificado.")]
                ELSE [called EXCEPT
                         !.entry_hora = OldTimeText(base_dt),
                         !.entry_shift = <<"0">>,
                         !.is_active = FALSE,
                         !.btn_centrar = "Centrar: OFF",
                         !.lbl_pos = Label("Posición: ", Dashes, ""),
                         !.plot = [start |-> t0, duration |-> dur,
                                   channel |-> g.channel_var,
                                   title |-> g.entry_archivo],
                         !.lbl_centro =
                             Label("Centro: ", OldTimeText(t0 + dur \div 2), "")]

\* ------------------------------------------------------------------------
\* The two windows under the same user.  `app` is the EventExtractorGUI
\* instance, `ventana` the window of test_gui.py; every user event is given
\* to both.  `events` counts the user's events, up to MaxEvents.
\* ------------------------------------------------------------------------
VARIABLES app, ventana, events,
          th_pc, th_str, th_dt, th_time, th_text,
          cli_pc, cli_env, cli_argv, cli_out, cli_exit, cli_plotted

guiVars == <<app, ventana, events>>

thVars == <<th_pc, th_str, th_dt, th_time, th_text>>

cliVars == <<cli_pc, cli_env, cli_argv, cli_out, cli_exit, cli_plotted>>

MaxEvents == 6

HoraEdits == {<<"1", "2", ":", "0", "0", ":", "0", "1", ",", "0", "0", "5">>,
              <<"x", "x">>}

ShiftEdits == {<<"2", ".", "5">>, <<"-", "0", ".", "2", "5">>, <<"a", "b", "c">>}

DuracionEdits == {<<"2">>, <<"0", ".", "5">>, <<"x">>}

\* Mouse positions in data coordinates (ticks): 0 s, 0.5 s, 1.235 s
XData == {0, 1000, 2470}

MouseEvents == {InAxes(x) : x \in XData} \cup {OutOfAxes}

MoveEvents == {InAxes(1000), OutOfAxes}

InitGui ==
    /\ app = InitialWindow
    /\ ventana = InitialWindow
    /\ events = 0

\* The event a canvas delivers for a mouse position: inside the axes only up
\* to the plotted duration (set_xlim(0, duration))
Delivered(g, event) ==
    IF event.inaxes /\ event.xdata <= g.plot.duration THEN event ELSE OutOfAxes

\* Mouse callbacks are connected to the canvas create_plot builds; without a
\* plot no callback runs
OnCanvas(g, handled) == IF g.plot = None THEN {g} ELSE handled

UserEvent ==
    /\ events < MaxEvents
    /\ events' = events + 1
    /\ UNCHANGED <<thVars, cliVars>>

AbrirOk ==
    \E f \in Files :
        /\ f.readable
        /\ app' = _open_file(app, f)
        /\ ventana' = abrir_archivo(ventana, f)
        /\ UserEvent

AbrirFails ==
    \E f \in Files :
        /\ ~f.readable
        /\ app' = _open_file(app, f)
        /\ ventana' = abrir_archivo(ventana, f)
        /\ UserEvent

AbrirCancel ==
    /\ app' = _open_file_cancel(app)
    /\ ventana' = abrir_archivo_cancel(ventana)
    /\ UserEvent

Previsualizar ==
    /\ app' = _preview(app)
    /\ ventana' = previsualizar(ventana)
    /\ UserEvent

Centrar ==
    /\ app' = _toggle_centering(app)
    /\ ventana' = toggle_centrar(Enter(ventana, "centrar"))
    /\ UserEvent

ClickAt(event) ==
    /\ app' \in OnCanvas(app, _on_plot_click(app, Delivered(app, event)))
    /\ ventana' \in OnCanvas(ventana,
                              on_click(ventana, Delivered(ventana, event)))
    /\ UserEvent

PlotClick == \E event \in MouseEvents : ClickAt(event)

MoveTo(event) ==
    /\ app' \in OnCanvas(app, _on_mouse_move(app, Delivered(app, event)))
    /\ ventana' \in OnCanvas(ventana,
                              on_mouse_move(ventana, Delivered(ventana, event)))
    /\ UserEvent

MouseMove == \E event \in MoveEvents : MoveTo(event)

EditHora ==
    \E text \in HoraEdits :
        /\ app' = [Enter(app, "edit") EXCEPT !.entry_hora = text]
        /\ ventana' = [Enter(ventana, "edit") EXCEPT !.entry_hora = text]
        /\ UserEvent

EditShift ==
    \E text \in ShiftEdits :
        /\ app' = [Enter(app, "edit") EXCEPT !.entry_shift = text]
        /\ ventana' = [Enter(ventana, "edit") EXCEPT !.entry_shift = text]
        /\ UserEvent

EditDuracion ==
    \E text \in DuracionEdits :
        /\ app' = [Enter(app, "edit") EXCEPT !.spin_duracion = text]
        /\ ventana' = [Enter(ventana, "edit") EXCEPT !.spin_duracion = text]
        /\ UserEvent

SelectChannel ==
    \E c \in PickedChannels :
        /\ app' = [Enter(app, "edit") EXCEPT !.channel_var = c]
        /\ ventana' = [Enter(ventana, "edit") EXCEPT !.channel_var = c]
        /\ UserEvent

NextGui ==
    \/ AbrirOk \/ AbrirFails \/ AbrirCancel \/ Previsualizar \/ Centrar
    \/ PlotClick \/ MouseMove
    \/ EditHora \/ EditShift \/ EditDuracion \/ SelectChannel

\* ------------------------------------------------------------------------
\* A caller of TimeHandler: it parses a text and formats the result on the
\* base date (as _preview does with a zero shift), or formats a datetime and
\* parses the text back (as the next _preview does with the field).
\* ------------------------------------------------------------------------
NoTime == None

BaseDay == 1

HourTexts == {<<"0", "0">>, <<"1", "2">>, <<"2", "3">>, <<"7">>, <<"2", "4">>,
              <<"x", "1">>, <<>>}
MinuteTexts == {<<"0", "0">>, <<"5", "9">>, <<"5">>, <<"6", "0">>}
SecondTexts == {<<"0", "0">>, <<"5", "9">>, <<"3">>, <<"6", "0">>,
                <<"0", "7", "5">>}
MsTexts == {<<>>, <<"5">>, <<"0", "7">>, <<"4", "5">>, <<"0", "0", "7">>,
            <<"1", "2", "3">>, <<"0", "0", "0", "7">>, <<"1", "0", "0", "0">>,
            <<"-", "5">>, <<"-", "0">>, <<"+", "5">>, <<"1", ",", "2">>,
            <<"x">>, <<"1", "2", "x">>}

HmsTexts ==
    {h \o <<":">> \o m \o <<":">> \o s :
        h \in HourTexts, m \in MinuteTexts, s \in SecondTexts}

\* The instants of the base day at three times of day, at every tick of the
\* second: every millisecond value 0..999, whole and with half a millisecond
DateTimes ==
    {Combine(BaseDay, hms) + k :
        hms \in {dt_time(0, 0, 0, 0), dt_time(12, 34, 56, 0),
                 dt_time(23, 59, 59, 0)},
        k \in 0..(TicksPerSec - 1)}

\* Texts of the documented form HH:MM:SS,mmm for every mmm in 000..999
DocumentedTexts ==
    {strftime_HMS(d) \o <<",">> \o FormatD(ms, 3) :
        d \in {Combine(BaseDay, dt_time(0, 0, 0, 0)),
               Combine(BaseDay, dt_time(12, 34, 56, 0)),
               Combine(BaseDay, dt_time(23, 59, 59, 0))},
        ms \in 0..999}

TimeTexts ==
    HmsTexts \cup {h \o <<",">> \o ms : h \in HmsTexts, ms \in MsTexts}
      \cup DocumentedTexts
      \cup {<<>>, <<"1", "2", ":", "0", "0">>,
            <<"1", "2", ":", "0", "0", ":", "0", "0", ":", "0", "0">>}

InitTime ==
    /\ \/ th_pc = "text" /\ th_str \in TimeTexts /\ th_dt = 0
       \/ th_pc = "datetime" /\ th_str = <<>> /\ th_dt \in DateTimes
    /\ th_time = NoTime
    /\ th_text = <<>>

ThParse ==
    /\ th_pc = "text"
    /\ th_time' = parse_time_with_ms(th_str)
    /\ th_pc' = IF IsError(th_time') THEN "rejected" ELSE "parsed"
    /\ UNCHANGED <<th_str, th_dt, th_text, guiVars, cliVars>>

ThFormatParsed ==
    /\ th_pc = "parsed"
    /\ th_text' = format_time_with_ms(Combine(BaseDay, th_time))
    /\ th_pc' = "reformatted"
    /\ UNCHANGED <<th_str, th_dt, th_time, guiVars, cliVars>>

ThFormat ==
    /\ th_pc = "datetime"
    /\ th_text' = format_time_with_ms(th_dt)
    /\ th_pc' = "formatted"
    /\ UNCHANGED <<th_str, th_dt, th_time, guiVars, cliVars>>

ThParseFormatted ==
    /\ th_pc = "formatted"
    /\ th_time' = parse_time_with_ms(th_text)
    /\ th_pc' = "reparsed"
    /\ UNCHANGED <<th_str, th_dt, th_text, guiVars, cliVars>>

NextTime == ThParse \/ ThFormatParsed \/ ThFormat \/ ThParseFormatted

\* ------------------------------------------------------------------------
\* visualizar_evento.py: one run of the script, statement by statement.
\* cli_env is the environment it runs in, cli_argv its arguments after the
\* script name, cli_out the lines written so far, cli_exit its exit status
\* ("none" while it runs), cli_plotted whether stream_recortado.plot() ran.
\* ------------------------------------------------------------------------
CliFiles ==
    {[name |-> "evento.mseed", isfile |-> TRUE, readable |-> TRUE],
     [name |-> "corrupto.mseed", isfile |-> TRUE, readable |-> FALSE],
     [name |-> "ausente.mseed", isfile |-> FALSE, readable |-> FALSE]}

\* The data of evento.mseed spans these instants
CliDataStart == Combine(1, dt_time(3, 45, 0, 0))

CliDataEnd == Combine(1, dt_time(3, 46, 0, 0))

\* <inicio_iso8601>: inside the data, after the data, not a timestamp
CliTimestamps ==
    {[text |-> "2024-07-29T03:45:12", valid |-> TRUE,
      instant |-> Combine(1, dt_time(3, 45, 12, 0))],
     [text |-> "2024-07-29T09:00:00", valid |-> TRUE,
      instant |-> Combine(1, dt_time(9, 0, 0, 0))],
     [text |-> "ayer", valid |-> FALSE, instant |-> 0]}

CliDurations == {<<"6", "0">>, <<"0", ".", "5">>, <<"a", "b", "c">>}

CliExtraArgs == {<<"6", "0">>}

CliArgvs ==
    {<<>>}
      \cup {<<f>> : f \in CliFiles}
      \cup {<<f, t>> : f \in CliFiles, t \in CliTimestamps}
      \cup {<<f, t, d>> : f \in CliFiles, t \in CliTimestamps,
                          d \in CliDurations}
      \cup {<<f, t, d, x>> : f \in CliFiles, t \in CliTimestamps,
                             d \in CliDurations, x \in CliExtraArgs}

CliEnvs == [tkinter : BOOLEAN, env_file : BOOLEAN, project_root : BOOLEAN]

InitCli ==
    /\ cli_pc = "verificar_tkinter"
    /\ cli_env \in CliEnvs
    /\ cli_argv \in CliArgvs
    /\ cli_out = <<>>
    /\ cli_exit = "none"
    /\ cli_plotted = FALSE

IdleCli ==
    /\ cli_pc = "idle"
    /\ cli_env = [tkinter |-> TRUE, env_file |-> TRUE, project_root |-> TRUE]
    /\ cli_argv = <<>>
    /\ cli_out = <<>>
    /\ cli_exit = "none"
    /\ cli_plotted = FALSE

\* print(message); sys.exit(1).  A message is the tuple of its lines.
CliFail(messages) ==
    /\ cli_out' = cli_out \o messages
    /\ cli_exit' = "1"
    /\ cli_pc' = "exited"

CliGoto(pc) ==
    /\ cli_pc' = pc
    /\ UNCHANGED <<cli_out, cli_exit>>

CliRest == UNCHANGED <<cli_env, cli_argv, cli_plotted, guiVars, thVars>>

CliVerificarTkinter ==
    /\ cli_pc = "verificar_tkinter"
    /\ IF ~cli_env.tkinter
       THEN CliFail(<< <<"ERROR: No se encontró el módulo 'tkinter'.",
                      "Por favor, instale 'python3-tk' usando:",
                      "  sudo apt install python3-tk",
                      "y vuelva a ejecutar este script.">> >>)
       ELSE CliGoto("find_dotenv")
    /\ CliRest

CliFindDotenv ==
    /\ cli_pc = "find_dotenv"
    /\ IF ~cli_env.env_file
       THEN CliFail(<< <<"ERROR: Archivo .env no encontrado en la raíz del proyecto.">> >>)
       ELSE CliGoto("getenv")
    /\ CliRest

CliGetenv ==
    /\ cli_pc = "getenv"
    /\ IF ~cli_env.project_root
       THEN CliFail(<< <<"ERROR: PROJECT_LOCAL_ROOT no definido en el archivo .env.">> >>)
       ELSE CliGoto("argv")
    /\ CliRest

\* len(sys.argv) != 4, sys.argv[0] being the script
CliCheckArgv ==
    /\ cli_pc = "argv"
    /\ IF Len(cli_argv) + 1 # 4
       THEN CliFail(<< <<"Uso: python visualizar_evento.py <archivo_mseed> <inicio_iso8601> <duracion_segundos>">> >>)
       ELSE CliGoto("float")
    /\ CliRest

\* duracion = float(sys.argv[3]): a ValueError here is caught by nothing; the
\* interpreter writes the traceback and exits with status 1
CliFloat ==
    /\ cli_pc = "float"
    /\ IF ~IsFloatText(cli_argv[3])
       THEN CliFail(<< <<"Traceback (most recent call last):",
                      "  File \"visualizar_evento.py\", line 52, in <module>",
                      "    duracion = float(sys.argv[3])",
                      "ValueError: could not convert string to float">> >>)
       ELSE CliGoto("isfile")
    /\ CliRest

CliIsFile ==
    /\ cli_pc = "isfile"
    /\ IF ~cli_argv[1].isfile
       THEN CliFail(<< <<"ERROR: El archivo mseed no existe: ...">> >>)
       ELSE CliGoto("read")
    /\ CliRest

\* try: read, UTCDateTime(timestamp_inicio), slice; except: ERROR, exit(1)
CliReadSlice ==
    /\ cli_pc = "read"
    /\ IF ~cli_argv[1].readable \/ ~cli_argv[2].valid
       THEN CliFail(<< <<"ERROR al leer o recortar el archivo: ...">> >>)
       ELSE CliGoto("report")
    /\ CliRest

\* len(stream_recortado) for the slice (inicio, inicio + duracion)
CliSliceEmpty ==
    LET inicio == cli_argv[2].instant
        fin    == inicio + FloatTicks(cli_argv[3])
    IN  ~(inicio <= CliDataEnd /\ fin >= CliDataStart)

CliReport ==
    /\ cli_pc = "report"
    /\ IF CliSliceEmpty
       THEN CliFail(<< <<"Mostrando segmento: ...">>,
                       <<"No se encontraron datos en el intervalo especificado.">> >>)
       ELSE /\ cli_out' = Append(cli_out, <<"Mostrando segmento: ...">>)
            /\ cli_pc' = "plot"
            /\ UNCHANGED cli_exit
    /\ CliRest

CliPlot ==
    /\ cli_pc = "plot"
    /\ cli_plotted' = TRUE
    /\ cli_exit' = "0"
    /\ cli_pc' = "exited"
    /\ UNCHANGED <<cli_out, cli_env, cli_argv, guiVars, thVars>>

NextCli ==
    \/ CliVerificarTkinter \/ CliFindDotenv \/ CliGetenv \/ CliCheckArgv
    \/ CliFloat \/ CliIsFile \/ CliReadSlice \/ CliReport \/ CliPlot

\* ------------------------------------------------------------------------
\* Specifications
\* ------------------------------------------------------------------------
vars == <<guiVars, thVars, cliVars>>

IdleTime ==
    /\ th_pc = "idle" /\ th_str = <<>> /\ th_dt = 0
    /\ th_time = NoTime /\ th_text = <<>>

\* The GUI under its user
Init == InitGui /\ IdleTime /\ IdleCli

Next == NextGui

Spec == Init /\ [][Next]_vars

\* TimeHandler under its caller
TimeStart == InitTime /\ InitGui /\ IdleCli

SpecTime == TimeStart /\ [][NextTime]_vars

\* One run of visualizar_evento.py
CliStart == InitCli /\ InitGui /\ IdleTime

SpecCli == CliStart /\ [][NextCli]_vars

\* ------------------------------------------------------------------------
\* The documented forms of a time text, as the claims state them
\* ------------------------------------------------------------------------
TwoDigits(s, lo, hi) == Len(s) = 2 /\ AllDigits(s) /\ NatOf(s) \in lo..hi

\* HH:MM:SS with hour 00-23, minute and second 00-59
IsHHMMSS(s) ==
    /\ Len(s) = 8
    /\ s[3] = ":" /\ s[6] = ":"
    /\ TwoDigits(SubSeq(s, 1, 2), 0, 23)
    /\ TwoDigits(SubSeq(s, 4, 5), 0, 59)
    /\ TwoDigits(SubSeq(s, 7, 8), 0, 59)

\* HH:MM:SS,mmm with exactly three millisecond digits
IsHHMMSSmmm(s) ==
    /\ Len(s) = 12
    /\ IsHHMMSS(SubSeq(s, 1, 8))
    /\ s[9] = ","
    /\ AllDigits(SubSeq(s, 10, 12))

\* ------------------------------------------------------------------------
\* Claims about TimeHandler (SpecTime)
\* ------------------------------------------------------------------------

\* C1: for every text s of the form HH:MM:SS,mmm, formatting the datetime
\* whose time of day is parse_time_with_ms(s) gives back exactly s.
C1_FormatOfParseIsInput ==
    (th_pc = "reformatted" /\ IsHHMMSSmmm(th_str)) => th_text = th_str

\* C2: for every datetime with a whole number of milliseconds, parsing its
\* formatted text gives its time of day: same hour, minute, second and
\* millisecond, also below 100 ms.
C2_ParseOfFormatIsTime ==
    (th_pc = "reparsed" /\ th_dt % TicksPerMs = 0) =>
        /\ ~IsError(th_time)
        /\ th_time.hour = TimeOfDay(th_dt).hour
        /\ th_time.minute = TimeOfDay(th_dt).minute
        /\ th_time.second = TimeOfDay(th_dt).second
        /\ th_time.microsecond = (th_dt % TicksPerSec) * UsPerTick

\* C2 witness: a datetime at 7 ms was formatted and parsed back to 7000 us
C2_Witness ==
    /\ th_pc = "reparsed"
    /\ th_dt % TicksPerSec = 7 * TicksPerMs
    /\ ~IsError(th_time)
    /\ th_time.microsecond = 7000

\* C3: every text that is neither HH:MM:SS nor HH:MM:SS,mmm is rejected with
\* ValueError('Formato de hora inválido: <input>'); no time is returned.
C3_RejectsUndocumentedForms ==
    (th_pc \in {"parsed", "rejected"}
       /\ ~IsHHMMSS(th_str) /\ ~IsHHMMSSmmm(th_str)) =>
        /\ th_pc = "rejected"
        /\ th_time = InvalidTime(th_str)

\* ------------------------------------------------------------------------
\* Claims about visualizar_evento.py (SpecCli)
\* ------------------------------------------------------------------------
CliAllChecksPass ==
    /\ cli_env.tkinter /\ cli_env.env_file /\ cli_env.project_root
    /\ Len(cli_argv) = 3
    /\ cli_argv[1].isfile /\ cli_argv[1].readable /\ cli_argv[2].valid
    /\ IsFloatText(cli_argv[3])
    /\ ~CliSliceEmpty

\* The first lines of the messages that start with 'ERROR', 'Uso:' or
\* 'No se encontraron datos' (TLA+ strings have no prefix test, so the lines
\* the script can write with such a start are listed)
CliErrorFirstLines ==
    {"ERROR: No se encontró el módulo 'tkinter'.",
     "ERROR: Archivo .env no encontrado en la raíz del proyecto.",
     "ERROR: PROJECT_LOCAL_ROOT no definido en el archivo .env.",
     "Uso: python visualizar_evento.py <archivo_mseed> <inicio_iso8601> <duracion_segundos>",
     "ERROR: El archivo mseed no existe: ...",
     "ERROR al leer o recortar el archivo: ...",
     "No se encontraron datos en el intervalo especificado."}

CliLastMessage == cli_out[Len(cli_out)]

\* C8: the plot call is reached only if every check passed; on every other
\* input (a non-numeric duration included) the last thing the script writes
\* is a message starting with 'ERROR', 'Uso:' or 'No se encontraron datos',
\* and it exits with status 1 without plotting.
C8_PlotOnlyAfterChecksElseMessage ==
    cli_pc = "exited" =>
        IF CliAllChecksPass
        THEN cli_plotted /\ cli_exit = "0"
        ELSE /\ ~cli_plotted
             /\ cli_exit = "1"
             /\ Len(cli_out) >= 1
             /\ CliLastMessage[1] \in CliErrorFirstLines

\* ------------------------------------------------------------------------
\* Claims about the two windows (Spec)
\* ------------------------------------------------------------------------
\* The last event of window g was a Previsualizar that went through
PreviewDone(g) ==
    g.handler = "previsualizar" /\ g.slice_call # None /\ g.dialog = None

\* The time of day, in ticks, that a reader takes from a text HH:MM:SS or
\* HH:MM:SS,f (f a decimal fraction of the second, up to milliseconds);
\* -1 for any other text
ShownTicks(text) ==
    LET commas == CommaPositions(text)
        clock  == BeforeComma(text)
        frac   == SubSeq(text, Len(clock) + 2, Len(text))
    IN  IF ~IsHHMMSS(clock) \/ Cardinality(commas) > 1 THEN 0 - 1
        ELSE IF commas # {} /\ ~(AllDigits(frac) /\ Len(frac) \in 1..3)
        THEN 0 - 1
        ELSE ((NatOf(SubSeq(clock, 1, 2)) * 60 + NatOf(SubSeq(clock, 4, 5))) * 60
                 + NatOf(SubSeq(clock, 7, 8))) * TicksPerSec
             + (IF commas = {} THEN 0
                ELSE NatOf(frac) * Pow10(3 - Len(frac)) * TicksPerMs)

\* A text shows the time of day of an instant, to the millisecond
ShowsTimeOf(text, instant) ==
    ShownTicks(text) = ((instant % TicksPerDay) \div TicksPerMs) * TicksPerMs

\* C4: every successful Previsualizar of mseed_event_extractor.py passes the
\* window (start, start + duration) to the slicing call, start being the file's
\* start date at the time of day in 'Hora inicio' plus 'Desplazamiento';
\* afterwards 'Hora inicio' shows the time of day of start and 'Centro' shows
\* the time of day of start + duration/2.
C4_WindowAndDisplays ==
    [][(Previsualizar /\ PreviewDone(app')) =>
          LET duration == FloatTicks(app.spin_duracion)
              start    == DateOf(app.file_starttime.timestamp) * TicksPerDay
                            + ShownTicks(app.entry_hora)
                            + FloatTicks(app.entry_shift)
          IN  /\ app'.slice_call.starttime = start
              /\ app'.slice_call.endtime = start + duration
              /\ ShowsTimeOf(app'.entry_hora, start)
              /\ app'.lbl_centro.prefix = "Centro: "
              /\ ShowsTimeOf(app'.lbl_centro.value, start + duration \div 2)
      ]_vars

\* A text is a number written with two decimals, the nearest to value
TwoDecimalsOf(text, value) ==
    /\ IsFloatText(text)
    /\ Len(text) >= 4
    /\ text[Len(text) - 2] = "."
    /\ FloatTicks(text) - value <= TicksPerSec \div 200
    /\ value - FloatTicks(text) <= TicksPerSec \div 200

\* C5: a click on the plot of mseed_event_extractor.py made with centering
\* active and inside the axes at x sets 'Desplazamiento' to x - duration/2
\* (two decimals) and ends centering; any other click leaves 'Desplazamiento',
\* 'Hora inicio' and the centering flag as they were.
C5_FlagDecidesClick ==
    [][\A event \in MouseEvents :
          (ClickAt(event) /\ app.plot # None) =>
              IF app.is_active /\ Delivered(app, event).inaxes
              THEN /\ IsFloatText(app.spin_duracion)
                   /\ TwoDecimalsOf(app'.entry_shift,
                                    Delivered(app, event).xdata
                                      - FloatTicks(app.spin_duracion) \div 2)
                   /\ ~app'.is_active
              ELSE /\ app'.entry_shift = app.entry_shift
                   /\ app'.entry_hora = app.entry_hora
                   /\ app'.is_active = app.is_active
      ]_vars

\* The user pressed Previsualizar (window start S), left 'Hora inicio' as the
\* preview wrote it, and has just clicked in the axes with centering active at
\* a multiple of 0.01 s
CenteredOnPlot ==
    /\ app.plot # None
    /\ app.stream # None
    /\ app.plot.title = app.entry_archivo
    /\ app.entry_hora = format_time_with_ms(app.plot.start)
    /\ app.handler = "click"
    /\ app.centered_at # None
    /\ app.centered_at.x % (TicksPerSec \div 100) = 0

\* C6: a Previsualizar pressed right after such a click asks for the window
\* that starts at S + x - D/2, whose centre is the instant S + x (D the
\* duration in the spinbox).
C6_RecentredOnClick ==
    [][(CenteredOnPlot /\ Previsualizar) =>
          LET D == FloatTicks(app.spin_duracion)
              S == app.plot.start
              x == app.centered_at.x
          IN  /\ app'.slice_call # None
              /\ app'.slice_call.starttime = S + x - D \div 2
              /\ app'.slice_call.starttime + D \div 2 = S + x
      ]_vars

\* What a failing preview must leave alone
PreviewKeeps(g, h) ==
    /\ h.entry_hora = g.entry_hora
    /\ h.entry_shift = g.entry_shift
    /\ h.is_active = g.is_active
    /\ h.btn_centrar = g.btn_centrar
    /\ h.lbl_pos = g.lbl_pos
    /\ h.lbl_centro = g.lbl_centro
    /\ h.plot = g.plot

\* A preview of window g that did not go through, leaving window h
FailedPreviewKeeps(g, h) ==
    (g.stream # None /\ ~PreviewDone(h)) =>
        /\ h.dialog # None
        /\ h.dialog.fn \in {"showerror", "showwarning"}
        /\ PreviewKeeps(g, h)

\* C7: in both variants a Previsualizar that fails with a file loaded shows an
\* error or warning dialog and leaves 'Hora inicio', 'Desplazamiento', the
\* centering flag, its button and position labels, the 'Centro' label and the
\* plot exactly as they were.
C7_FailingPreviewChangesNothing ==
    [][Previsualizar =>
          /\ FailedPreviewKeeps(app, app')
          /\ FailedPreviewKeeps(ventana, ventana')
      ]_vars

RefusedOverPlot(g) ==
    /\ g.handler = "previsualizar"
    /\ g.slice_call # None
    /\ g.dialog # None
    /\ g.plot # None
    /\ g.is_active
    /\ g.entry_shift # <<"0">>

\* Both variants have just refused a preview (no data for the window) while a
\* plot was shown, centering was active and a shift was typed
C7_Witness == RefusedOverPlot(app) /\ RefusedOverPlot(ventana)

\* What the two variants are compared on
Observed(g) ==
    [stream |-> g.stream, slice_call |-> g.slice_call,
     entry_hora |-> g.entry_hora, entry_shift |-> g.entry_shift,
     entry_archivo |-> g.entry_archivo, is_active |-> g.is_active,
     lbl_centro |-> g.lbl_centro, lbl_pos |-> g.lbl_pos,
     btn_centrar |-> g.btn_centrar]

\* C9: after the same user events the two variants agree on the loaded file,
\* the window passed to the slicing call, the 'Hora inicio', 'Desplazamiento'
\* and file-path fields, the centering flag and the 'Centro', position and
\* button labels.
C9_VariantsAgree == Observed(app) = Observed(ventana)

ResetByPreview(g) ==
    PreviewDone(g) =>
        /\ g.entry_shift = <<"0">>
        /\ ~g.is_active
        /\ g.btn_centrar = "Centrar: OFF"
        /\ g.lbl_pos = Label("Posición: ", Dashes, "")
        /\ ShowsTimeOf(g.entry_hora, g.slice_call.starttime)

\* C10: after a successful Previsualizar, in both variants, 'Desplazamiento'
\* reads '0', centering is off with 'Centrar: OFF' and 'Posición: --', and
\* 'Hora inicio' holds the time of day of the window start just used.
C10_AfterPreview == ResetByPreview(app) /\ ResetByPreview(ventana)

\* What a failed or cancelled open must leave alone
OpenKeeps(g, h) ==
    /\ h.stream = g.stream
    /\ h.file_starttime = g.file_starttime
    /\ h.file_endtime = g.file_endtime
    /\ h.lbl_fecha = g.lbl_fecha
    /\ h.entry_archivo = g.entry_archivo
    /\ h.entry_hora = g.entry_hora
    /\ h.entry_shift = g.entry_shift

\* The last event of window g was an open that failed over a loaded file
FailedOpenOverFile(g) ==
    /\ g.handler = "abrir"
    /\ g.dialog # None
    /\ g.stream # None

\* C11: in mseed_event_extractor.py an open that raises while a file is loaded
\* shows an error dialog and leaves the stream, its start and end times, the
\* file-info label, the file-path field, 'Hora inicio' and 'Desplazamiento'
\* unchanged; a cancelled file dialog changes none of them and shows nothing;
\* a Previsualizar that follows the failed open slices the file loaded before.
C11_FailedOpenChangesNothing ==
    [][/\ (AbrirFails /\ app.stream # None) =>
              /\ app'.dialog # None
              /\ app'.dialog.fn = "showerror"
              /\ OpenKeeps(app, app')
       /\ AbrirCancel =>
              /\ app'.dialog = None
              /\ OpenKeeps(app, app')
       /\ (Previsualizar /\ FailedOpenOverFile(app)) =>
              /\ app'.dialog # Dialog("showwarning", "Aviso",
                                      "Primero abre un archivo mseed.")
              /\ app'.slice_call # None =>
                     /\ app'.slice_call.stream = app.entry_archivo
                     /\ app'.slice_call.stream = app.stream.name
      ]_vars

\* An open has just failed while a file was loaded and plotted
C11_Witness == FailedOpenOverFile(app) /\ app.plot # None

\* The warning both variants show when no file is loaded
NoFileWarning == Dialog("showwarning", "Aviso", "Primero abre un archivo mseed.")

\* Everything a window shows and holds, apart from the record of the last event
Content(g) ==
    [g EXCEPT !.handler = "", !.dialog = None, !.slice_call = None,
              !.centered_at = None]

\* One Previsualizar press seen from one window, g before and h after: with
\* no file loaded it warns, slices nothing and changes nothing; a slicing
\* call is made on the loaded stream, its start built on the date of that
\* stream's start time (the time of day and the shift add up from that date)
PreviewUsesLoadedFile(g, h) ==
    /\ g.stream = None =>
           /\ h.dialog = NoFileWarning
           /\ h.slice_call = None
           /\ Content(h) = Content(g)
    /\ h.slice_call # None =>
           /\ g.stream # None
           /\ h.slice_call.stream = g.stream.name
           /\ (h.slice_call.starttime - FloatTicks(g.entry_shift))
                  \div TicksPerDay = DateOf(g.stream.starttime)

\* An event that is not a successful open, seen from one window: the loaded
\* stream stays the one of the last successful open (or is dropped)
KeepsLoadedFile(g, h) ==
    /\ h.stream = None \/ h.stream = g.stream
    /\ h.stream # None => h.file_starttime = g.file_starttime

\* An event that is not a Previsualizar makes no slicing call (a window no
\* handler ran in still records the call of its last event)
NoNewSlice(g, h) == h.slice_call = None \/ h = g

\* A successful open of f, seen from one window: f is the loaded stream and
\* its start time the base of the dates
TakesFile(h, f) ==
    /\ h.stream # None
    /\ h.stream.name = f.name
    /\ h.stream.starttime = f.starttime
    /\ h.file_starttime = UTCDateTime(f.starttime)
    /\ h.slice_call = None

\* C12: in both variants a Previsualizar pressed with no file loaded shows
\* 'Primero abre un archivo mseed.' and changes no field, label, flag or plot;
\* no slicing call is made without a loaded file, and every slicing call is
\* made on the stream of the most recent successful open with the base date
\* of that file's start time.
C12_SlicesOnlyLoadedFile ==
    [][/\ Previsualizar =>
              /\ PreviewUsesLoadedFile(app, app')
              /\ PreviewUsesLoadedFile(ventana, ventana')
       /\ \A f \in Files :
              (f.readable /\ app' = _open_file(app, f)
                 /\ ventana' = abrir_archivo(ventana, f) /\ UserEvent) =>
                  TakesFile(app', f) /\ TakesFile(ventana', f)
       /\ ~AbrirOk =>
              /\ KeepsLoadedFile(app, app')
              /\ KeepsLoadedFile(ventana, ventana')
       /\ ~Previsualizar =>
              NoNewSlice(app, app') /\ NoNewSlice(ventana, ventana')
      ]_vars

\* After b.mseed was opened over a.mseed and a later open failed, a press of
\* Previsualizar sliced b.mseed in the refactored window, while test_gui.py,
\* which dropped its stream, warned over the plot it still shows
C12_Witness ==
    /\ app.handler = "previsualizar"
    /\ app.slice_call # None
    /\ app.slice_call.stream = "b.mseed"
    /\ ventana.dialog = NoFileWarning
    /\ ventana.plot # None
    /\ ventana.plot.title = "a.mseed"

\* A Previsualizar pressed right after a successful one, seen from one
\* window: it asks for the window the first press asked for
SameWindowAgain(g, h) ==
    PreviewDone(g) =>
        /\ h.slice_call # None
        /\ h.slice_call.starttime = g.slice_call.starttime
        /\ h.slice_call.endtime = g.slice_call.endtime

\* C13: in either variant a second Previsualizar pressed right after a
\* successful one, with nothing edited in between, requests the same start
\* and end instants as the first, whatever the first start was.
C13_PreviewIdempotent ==
    [][Previsualizar =>
          /\ SameWindowAgain(app, app')
          /\ SameWindowAgain(ventana, ventana')
      ]_vars

\* The button and the position label of mseed_event_extractor.py say what
\* the centering flag is
LabelsAgree ==
    /\ app.btn_centrar = (IF app.is_active THEN "Centrar: ON"
                          ELSE "Centrar: OFF")
    /\ app.lbl_pos.prefix = (IF app.is_active THEN "Δ: " ELSE "Posición: ")

\* What a mouse move must leave alone: everything but the position label
BesidesPosition(g) == [Content(g) EXCEPT !.lbl_pos = None]

\* C14: in every reachable state of mseed_event_extractor.py the button reads
\* 'Centrar: ON' exactly when the centering flag is active and 'Centrar: OFF'
\* otherwise, and the position label starts with 'Δ: ' exactly when the flag
\* is active and with 'Posición: ' otherwise; a mouse move changes nothing
\* but the position label.
C14_LabelsFollowFlag ==
    /\ []LabelsAgree
    /\ [][\A event \in MoveEvents :
              MoveTo(event) => BesidesPosition(app') = BesidesPosition(app)
         ]_vars

\* The mouse has just moved inside the axes with centering active, and the
\* position label shows the offset from the centre
C14_Witness ==
    /\ app.handler = "move"
    /\ app.is_active
    /\ app.btn_centrar = "Centrar: ON"
    /\ app.lbl_pos.prefix = "Δ: "
    /\ app.lbl_pos.value # Dashes

====
